---- MODULE Spec2Model ----
(***************************************************************************)
(* Model of SQLAnalyzer (src/sql_analyzer.py): the query classifier, the   *)
(* token-stream extractors, the complexity scorer, the change-area         *)
(* diagnostics and the analyze_query orchestrator.                         *)
(*                                                                         *)
(* Text is modelled by TLA+ strings (Len, \o, SubSeq, Head and Tail work   *)
(* on strings in TLC).  A parsed statement is modelled by the flat token   *)
(* sequence that parsed.flatten() yields: records [ttype, value] carrying  *)
(* the token type the sqlparse lexer assigns (SELECT/INSERT/... are        *)
(* Keyword.DML, CREATE/DROP/ALTER are Keyword.DDL, WITH is Keyword.CTE,    *)
(* multi-word keywords such as LEFT JOIN or GROUP BY are one Keyword       *)
(* token).  The query text is the concatenation of the token values        *)
(* (lexing is lossless).                                                   *)
(***************************************************************************)
EXTENDS Integers, Sequences, FiniteSets, TLC

-----------------------------------------------------------------------------
(* Bounds of the model *)

\* longest chain of joined tables in a generated query
MaxJoins == 5
\* per-process string hash seeds considered (set iteration order)
MaxHashSeed == 1
\* longest run of whitespace put in front of a query
MaxLead == 1
\* parenthesis nesting beyond which the tokenizer's grouping gives up
GroupingDepthLimit == 2

-----------------------------------------------------------------------------
(* Python str primitives *)

Ch(s, i) == SubSeq(s, i, i)

LowerLetters == "abcdefghijklmnopqrstuvwxyz"
UpperLetters == "ABCDEFGHIJKLMNOPQRSTUVWXYZ"
Digits == "0123456789"
WhitespaceChars == {" ", "\t", "\n", "\r"}

CharsOf(s) == {Ch(s, i) : i \in 1..Len(s)}

\* position of character c in string s, 0 when absent
IndexIn(s, c) ==
  IF \E i \in 1..Len(s) : Ch(s, i) = c
  THEN CHOOSE i \in 1..Len(s) : Ch(s, i) = c
  ELSE 0

UpperChar(c) ==
  LET i == IndexIn(LowerLetters, c) IN IF i = 0 THEN c ELSE Ch(UpperLetters, i)

LowerChar(c) ==
  LET i == IndexIn(UpperLetters, c) IN IF i = 0 THEN c ELSE Ch(LowerLetters, i)

RECURSIVE Upper(_)
\* str.upper()
Upper(s) ==
  IF Len(s) <= 1 THEN UpperChar(s)
  ELSE LET h == Len(s) \div 2
       IN  Upper(SubSeq(s, 1, h)) \o Upper(SubSeq(s, h + 1, Len(s)))

RECURSIVE Lower(_)
\* str.lower()
Lower(s) ==
  IF Len(s) <= 1 THEN LowerChar(s)
  ELSE LET h == Len(s) \div 2
       IN  Lower(SubSeq(s, 1, h)) \o Lower(SubSeq(s, h + 1, Len(s)))

RECURSIVE LStripChars(_, _)
LStripChars(s, chars) ==
  IF s # "" /\ Head(s) \in chars THEN LStripChars(Tail(s), chars) ELSE s

RECURSIVE RStripChars(_, _)
RStripChars(s, chars) ==
  IF s # "" /\ Ch(s, Len(s)) \in chars
  THEN RStripChars(SubSeq(s, 1, Len(s) - 1), chars)
  ELSE s

\* str.strip(chars)
StripChars(s, chars) == RStripChars(LStripChars(s, chars), chars)

\* str.strip()
Strip(s) == StripChars(s, WhitespaceChars)

\* str.startswith(p)
StartsWith(s, p) == Len(s) >= Len(p) /\ SubSeq(s, 1, Len(p)) = p

\* p in s
Contains(s, p) ==
  \E i \in 1..(Len(s) - Len(p) + 1) : SubSeq(s, i, i + Len(p) - 1) = p

\* str.isdigit()
IsDigit(s) == s # "" /\ \A i \in 1..Len(s) : Ch(s, i) \in CharsOf(Digits)

\* number of occurrences of the one-character string c in s
CountChar(s, c) == Cardinality({i \in 1..Len(s) : Ch(s, i) = c})

\* len(s.split('.'))
SplitDotLen(s) == CountChar(s, ".") + 1

\* s.split('.')[-1]
RECURSIVE SplitDotLast(_)
SplitDotLast(s) ==
  LET i == IndexIn(s, ".") IN
  IF i = 0 THEN s ELSE SplitDotLast(SubSeq(s, i + 1, Len(s)))

\* x in list
InSeq(x, seq) == \E i \in 1..Len(seq) : seq[i] = x

Range(seq) == {seq[i] : i \in 1..Len(seq)}

RECURSIVE Repeat(_, _)
Repeat(s, n) == IF n = 0 THEN "" ELSE s \o Repeat(s, n - 1)

-----------------------------------------------------------------------------
(* Set iteration order.  list(set) of str iterates in an order fixed by   *)
(* the process's string hash seed: one order per process, any order across *)
(* processes.  The model draws the seed once per analyzer process and      *)
(* orders a set by a seed-dependent comparison of its elements.            *)

\* the characters that occur in the model's texts, in ASCII order
Alphabet ==
  "\t\n\r !\"#'()*,.0123456789:;<=>ABCDEFGHIJKLMNOPQRSTUVWXYZ[]_abcdefghijklmnopqrstuvwxyz"

CharCode(c, seed) == (IndexIn(Alphabet, c) + seed) % (Len(Alphabet) + 1)

RECURSIVE StrLess(_, _, _)
StrLess(a, b, seed) ==
  IF b = "" THEN FALSE
  ELSE IF a = "" THEN TRUE
  ELSE IF Head(a) = Head(b) THEN StrLess(Tail(a), Tail(b), seed)
  ELSE CharCode(Head(a), seed) < CharCode(Head(b), seed)

HashBefore(a, b, seed) ==
  IF seed % 2 = 0 THEN StrLess(a, b, seed) ELSE StrLess(b, a, seed - 1)

RECURSIVE ListOfSet(_, _)
\* list(S) for a set S of str
ListOfSet(S, seed) ==
  IF S = {} THEN <<>>
  ELSE LET m == CHOOSE m \in S : \A y \in S : y = m \/ HashBefore(m, y, seed)
       IN  <<m>> \o ListOfSet(S \ {m}, seed)

-----------------------------------------------------------------------------
(* Tokens of parsed.flatten() *)

Tok(t, v) == [ttype |-> t, value |-> v]

RECURSIVE QueryText(_)
\* str(parsed): the text the tokens were lexed from
QueryText(toks) ==
  IF toks = <<>> THEN ""
  ELSE IF Len(toks) = 1 THEN toks[1].value
  ELSE LET h == Len(toks) \div 2
       IN  QueryText(SubSeq(toks, 1, h)) \o QueryText(SubSeq(toks, h + 1, Len(toks)))

\* parenthesis nesting depth after the first n tokens
NestingAt(toks, n) ==
  Cardinality({i \in 1..n : toks[i].value = "("})
    - Cardinality({i \in 1..n : toks[i].value = ")"})

\* sqlparse.parse(query) raises (SQLParseError / RecursionError, both
\* subclasses of Exception) when grouping nests too deep
TokenizerRaises(toks) ==
  \E n \in 1..Len(toks) : NestingAt(toks, n) > GroupingDepthLimit

\* str(e) of that exception
ParseErrorMessage == "Maximum grouping depth exceeded"

-----------------------------------------------------------------------------
(* SQLAnalyzer.__init__ tables *)

\* self.crud_keywords, in insertion order (each maps to the one keyword of
\* the same text)
crud_keywords ==
  <<"SELECT", "INSERT", "UPDATE", "DELETE", "CREATE", "DROP", "ALTER",
    "MERGE", "UPSERT">>

join_keywords ==
  <<"JOIN", "INNER JOIN", "LEFT JOIN", "RIGHT JOIN", "FULL JOIN",
    "CROSS JOIN", "NATURAL JOIN", "LEFT OUTER JOIN", "RIGHT OUTER JOIN",
    "FULL OUTER JOIN">>

-----------------------------------------------------------------------------
(* _determine_query_type *)

RECURSIVE FirstCrudPrefix(_, _)
\* the for loop over self.crud_keywords.items(): first keyword that is a
\* prefix, "" when the loop falls through
FirstCrudPrefix(query_upper, i) ==
  IF i > Len(crud_keywords) THEN ""
  ELSE IF StartsWith(query_upper, crud_keywords[i]) THEN crud_keywords[i]
  ELSE FirstCrudPrefix(query_upper, i + 1)

\* a classifier that strips the query and keeps its letter case
QueryTypeCaseSensitive(query) ==
  LET query_strip == Strip(query)
      crud_type   == FirstCrudPrefix(query_strip, 1)
  IN  IF crud_type # "" THEN crud_type
      ELSE IF StartsWith(query_strip, "WITH") THEN "CTE"
      ELSE "UNKNOWN"

_determine_query_type(query) ==
  LET query_upper == Strip(Upper(query))
      crud_type   == FirstCrudPrefix(query_upper, 1)
  IN  IF crud_type # "" THEN crud_type
      ELSE IF StartsWith(query_upper, "WITH") THEN "CTE"
      ELSE "UNKNOWN"

-----------------------------------------------------------------------------
(* _extract_tables *)

\* the characters of strip('`"[](),'); the backquote cannot be written in a
\* TLA+ string and does not occur in the model's texts
TableStripChars == {"\"", "[", "]", "(", ")", ","}

\* the validation of lines 211-215; Python parses it as
\* (a and b and c and d and e) or f
TableNameAccepted(cleaned_name) ==
  \/ /\ cleaned_name # ""
     /\ Upper(cleaned_name) \notin
          {"AS", "ON", "WHERE", "AND", "OR", "SELECT", "FROM", "JOIN"}
     /\ Len(cleaned_name) > 0
     /\ ~IsDigit(cleaned_name)
     /\ ~Contains(cleaned_name, ".")
  \/ SplitDotLen(cleaned_name) <= 2

\* a loop body that leaves next_is_table set after it has added a table
TablesStepKeepArmed(st, tok) ==
  LET token_value == Strip(Upper(tok.value))
      kw == tok.ttype = "Keyword"
  IN
  IF kw /\ token_value \in
       {"WHERE", "GROUP", "ORDER", "HAVING", "LIMIT", "UNION", "SELECT"}
  THEN [st EXCEPT !.in_from_clause = FALSE, !.in_join_clause = FALSE,
                  !.next_is_table = FALSE]
  ELSE IF kw /\ token_value = "FROM"
  THEN [st EXCEPT !.in_from_clause = TRUE, !.next_is_table = TRUE]
  ELSE IF kw /\ Contains(token_value, "JOIN")
  THEN [st EXCEPT !.in_join_clause = TRUE, !.next_is_table = TRUE]
  ELSE IF kw /\ token_value = "ON"
  THEN [st EXCEPT !.next_is_table = FALSE]
  ELSE
    LET cleaned_name == Strip(StripChars(tok.value, TableStripChars))
        capture ==
          /\ (st.in_from_clause \/ st.in_join_clause) /\ st.next_is_table
          /\ tok.ttype = "Name"
          /\ token_value \notin {"AS", "ON", "WHERE", "AND", "OR"}
          /\ TableNameAccepted(cleaned_name)
        st1 == IF capture
               THEN [st EXCEPT
                       !.tables = @ \cup
                         {IF Contains(cleaned_name, ".")
                          THEN SplitDotLast(cleaned_name) ELSE cleaned_name}]
               ELSE st
    IN IF kw /\ token_value = "AS"
       THEN [st1 EXCEPT !.next_is_table = FALSE]
       ELSE st1

\* one iteration of the for loop of lines 177-226 on token tok, from the
\* loop state st = [in_from_clause, in_join_clause, next_is_table, tables]
TablesStep(st, tok) ==
  LET token_value == Strip(Upper(tok.value))
      kw == tok.ttype = "Keyword"
  IN
  IF kw /\ token_value \in
       {"WHERE", "GROUP", "ORDER", "HAVING", "LIMIT", "UNION", "SELECT"}
  THEN [st EXCEPT !.in_from_clause = FALSE, !.in_join_clause = FALSE,
                  !.next_is_table = FALSE]
  ELSE IF kw /\ token_value = "FROM"
  THEN [st EXCEPT !.in_from_clause = TRUE, !.next_is_table = TRUE]
  ELSE IF kw /\ Contains(token_value, "JOIN")
  THEN [st EXCEPT !.in_join_clause = TRUE, !.next_is_table = TRUE]
  ELSE IF kw /\ token_value = "ON"
  THEN [st EXCEPT !.next_is_table = FALSE]
  ELSE
    LET cleaned_name == Strip(StripChars(tok.value, TableStripChars))
        capture ==
          /\ (st.in_from_clause \/ st.in_join_clause) /\ st.next_is_table
          /\ tok.ttype = "Name"
          /\ token_value \notin {"AS", "ON", "WHERE", "AND", "OR"}
          /\ TableNameAccepted(cleaned_name)
        st1 == IF capture
               THEN [st EXCEPT
                       !.tables = @ \cup
                         {IF Contains(cleaned_name, ".")
                          THEN SplitDotLast(cleaned_name) ELSE cleaned_name},
                       !.next_is_table = FALSE]
               ELSE st
    IN IF kw /\ token_value = "AS"
       THEN [st1 EXCEPT !.next_is_table = FALSE]
       ELSE st1

RECURSIVE TablesScan(_)
\* the loop from the configuration loop = [st, toks]: the loop state and
\* the tokens still to visit
TablesScan(loop) ==
  IF loop.toks = <<>> THEN loop.st
  ELSE TablesScan([st   |-> TablesStep(loop.st, Head(loop.toks)),
                   toks |-> Tail(loop.toks)])

\* the set the loop has built when it ends
TablesSet(parsed) ==
  TablesScan([st   |-> [in_from_clause |-> FALSE, in_join_clause |-> FALSE,
                        next_is_table |-> FALSE, tables |-> {}],
              toks |-> parsed]).tables

_extract_tables(parsed, seed) == ListOfSet(TablesSet(parsed), seed)

-----------------------------------------------------------------------------
(* _is_likely_table_name and _extract_columns *)

sql_keywords ==
  {"SELECT", "FROM", "WHERE", "JOIN", "ON", "AS", "AND", "OR", "IN", "EXISTS",
   "GROUP", "ORDER", "BY", "HAVING", "LIMIT", "OFFSET", "UNION", "DISTINCT",
   "COUNT", "SUM", "AVG", "MAX", "MIN", "CASE", "WHEN", "THEN", "ELSE", "END"}

\* the table-name test that never consults the metadata
LikelyTableByShapeOnly(name, table_metadata) ==
  IF name = "" \/ Len(name) < 2 THEN FALSE
  ELSE IF Upper(name) \in sql_keywords THEN FALSE
  ELSE ~(Contains(name, ".") /\ SplitDotLen(name) > 2)

\* table_metadata is a function from table names to field lists; {} is <<>>
_is_likely_table_name(name, table_metadata) ==
  IF name = "" \/ Len(name) < 2 THEN FALSE
  ELSE IF Upper(name) \in sql_keywords THEN FALSE
  ELSE IF DOMAIN table_metadata # {} THEN name \in DOMAIN table_metadata
  ELSE ~(Contains(name, ".") /\ SplitDotLen(name) > 2)

ColumnStripChars == {"\"", "[", "]"}

ColumnsSet(parsed, table_metadata) ==
  {StripChars(parsed[i].value, ColumnStripChars) :
     i \in {j \in 1..Len(parsed) :
              LET value == StripChars(parsed[j].value, ColumnStripChars) IN
              /\ parsed[j].ttype = "Name"
              /\ value # ""
              /\ ~_is_likely_table_name(value, table_metadata)
              /\ Upper(value) \notin
                   {"SELECT", "FROM", "WHERE", "JOIN", "ON", "AS"}}}

_extract_columns(parsed, table_metadata, seed) ==
  ListOfSet(ColumnsSet(parsed, table_metadata), seed)

-----------------------------------------------------------------------------
(* _detect_joins and _extract_join_types *)

_detect_joins(query) ==
  LET query_upper == Upper(query) IN
  \E i \in 1..Len(join_keywords) : Contains(query_upper, join_keywords[i])

\* the join-type scan stopping at the first phrase found
JoinTypesFirstMatch(query) ==
  LET query_upper == Upper(query)
      found == SelectSeq(join_keywords,
                         LAMBDA join_type : Contains(query_upper, join_type))
  IN IF found = <<>> THEN <<>> ELSE <<found[1]>>

_extract_join_types(query) ==
  LET query_upper == Upper(query) IN
  SelectSeq(join_keywords, LAMBDA join_type : Contains(query_upper, join_type))

-----------------------------------------------------------------------------
(* _extract_operations, _count_subqueries, _extract_functions *)

OperationsSet(parsed) ==
  {Upper(parsed[i].value) :
     i \in {j \in 1..Len(parsed) :
              /\ parsed[j].ttype = "Keyword"
              /\ Upper(parsed[j].value) \in
                   {"INSERT", "UPDATE", "DELETE", "SELECT", "CREATE", "DROP",
                    "ALTER"}}}

_extract_operations(parsed, seed) == ListOfSet(OperationsSet(parsed), seed)

\* one iteration of the loop of lines 322-328 on the loop state
\* st = [paren_depth, subquery_count]
SubqueryStep(st, token) ==
  IF token.value = "("
  THEN [st EXCEPT !.paren_depth = @ + 1]
  ELSE IF token.value = ")"
  THEN [st EXCEPT !.paren_depth = @ - 1]
  ELSE IF /\ token.ttype = "Keyword"
          /\ Upper(token.value) = "SELECT"
          /\ st.paren_depth > 0
  THEN [st EXCEPT !.subquery_count = @ + 1]
  ELSE st

RECURSIVE SubqueryScan(_)
SubqueryScan(loop) ==
  IF loop.toks = <<>> THEN loop.st
  ELSE SubqueryScan([st   |-> SubqueryStep(loop.st, Head(loop.toks)),
                     toks |-> Tail(loop.toks)])

_count_subqueries(parsed) ==
  SubqueryScan([st   |-> [paren_depth |-> 0, subquery_count |-> 0],
                toks |-> parsed]).subquery_count

FunctionNames ==
  {"COUNT", "SUM", "AVG", "MAX", "MIN", "COALESCE", "ISNULL", "CASE",
   "CAST", "CONVERT", "SUBSTRING", "CONCAT", "UPPER", "LOWER", "TRIM"}

FunctionsSet(parsed) ==
  {Upper(parsed[i].value) :
     i \in {j \in 1..Len(parsed) :
              /\ parsed[j].ttype = "Name"
              /\ Upper(parsed[j].value) \in FunctionNames}}

_extract_functions(parsed, seed) == ListOfSet(FunctionsSet(parsed), seed)

-----------------------------------------------------------------------------
(* _extract_conditions *)

RECURSIVE JoinSpace(_)
\* ' '.join(parts)
JoinSpace(parts) ==
  IF parts = <<>> THEN ""
  ELSE IF Len(parts) = 1 THEN parts[1]
  ELSE parts[1] \o " " \o JoinSpace(Tail(parts))

\* one iteration of the loop of lines 351-363 on the loop state
\* st = [conditions, in_where, current_condition]
\* the loop body with a WHERE keyword closing the region it is met in
ConditionsStepWhereRestarts(st, token) ==
  IF token.ttype = "Keyword" /\ Upper(token.value) = "WHERE"
  THEN [conditions |->
          IF st.current_condition # <<>> /\ st.in_where
          THEN Append(st.conditions, Strip(JoinSpace(st.current_condition)))
          ELSE st.conditions,
        in_where |-> TRUE,
        current_condition |-> <<>>]
  ELSE IF /\ token.ttype = "Keyword"
          /\ Upper(token.value) \in {"GROUP", "ORDER", "HAVING", "LIMIT"}
  THEN [conditions |->
          IF st.current_condition # <<>> /\ st.in_where
          THEN Append(st.conditions, Strip(JoinSpace(st.current_condition)))
          ELSE st.conditions,
        in_where |-> FALSE,
        current_condition |-> <<>>]
  ELSE IF st.in_where /\ Strip(token.value) # ""
  THEN [st EXCEPT !.current_condition = Append(@, token.value)]
  ELSE st

ConditionsStep(st, token) ==
  IF token.ttype = "Keyword" /\ Upper(token.value) = "WHERE"
  THEN [st EXCEPT !.in_where = TRUE]
  ELSE IF /\ token.ttype = "Keyword"
          /\ Upper(token.value) \in {"GROUP", "ORDER", "HAVING", "LIMIT"}
  THEN [conditions |->
          IF st.current_condition # <<>> /\ st.in_where
          THEN Append(st.conditions, Strip(JoinSpace(st.current_condition)))
          ELSE st.conditions,
        in_where |-> FALSE,
        current_condition |-> <<>>]
  ELSE IF st.in_where /\ Strip(token.value) # ""
  THEN [st EXCEPT !.current_condition = Append(@, token.value)]
  ELSE st

RECURSIVE ConditionsScan(_)
ConditionsScan(loop) ==
  IF loop.toks = <<>> THEN loop.st
  ELSE ConditionsScan([st   |-> ConditionsStep(loop.st, Head(loop.toks)),
                       toks |-> Tail(loop.toks)])

_extract_conditions(parsed) ==
  LET st == ConditionsScan([st   |-> [conditions |-> <<>>, in_where |-> FALSE,
                                      current_condition |-> <<>>],
                            toks |-> parsed])
  IN  IF st.current_condition # <<>> /\ st.in_where
      THEN Append(st.conditions, Strip(JoinSpace(st.current_condition)))
      ELSE st.conditions

-----------------------------------------------------------------------------
(* _extract_temp_tables: the regular expressions of self.temp_table_patterns *)
(* and of cte_pattern, matched with re.IGNORECASE.  A position is the index *)
(* of the next character to read; 0 stands for "no match".                  *)

WordChars == CharsOf(LowerLetters) \cup CharsOf(UpperLetters)
               \cup CharsOf(Digits) \cup {"_"}

RECURSIVE SkipWhile(_, _, _)
SkipWhile(text, i, chars) ==
  IF i <= Len(text) /\ Ch(text, i) \in chars
  THEN SkipWhile(text, i + 1, chars) ELSE i

\* a literal word of the pattern, any letter case
ReLit(text, i, word) ==
  IF i = 0 THEN 0
  ELSE IF /\ i + Len(word) - 1 <= Len(text)
          /\ Upper(SubSeq(text, i, i + Len(word) - 1)) = word
  THEN i + Len(word) ELSE 0

\* \s+
ReSpaces1(text, i) ==
  IF i = 0 \/ i > Len(text) THEN 0
  ELSE IF Ch(text, i) \notin WhitespaceChars THEN 0
  ELSE SkipWhile(text, i, WhitespaceChars)

\* \s*
ReSpaces0(text, i) == IF i = 0 THEN 0 ELSE SkipWhile(text, i, WhitespaceChars)

\* \w+
ReWord1(text, i) ==
  IF i = 0 \/ i > Len(text) THEN 0
  ELSE IF Ch(text, i) \notin WordChars THEN 0
  ELSE SkipWhile(text, i, WordChars)

\* CREATE\s+(?:TEMPORARY|TEMP)\s+TABLE
ReCreateTemp(text, i) ==
  LET a == ReSpaces1(text, ReLit(text, i, "CREATE"))
      viaTemporary ==
        ReLit(text, ReSpaces1(text, ReLit(text, a, "TEMPORARY")), "TABLE")
      viaTemp ==
        ReLit(text, ReSpaces1(text, ReLit(text, a, "TEMP")), "TABLE")
  IN  IF viaTemporary # 0 THEN viaTemporary ELSE viaTemp

\* CREATE\s+TABLE\s+#\w+
ReCreateHash(text, i) ==
  ReWord1(text,
    ReLit(text,
      ReSpaces1(text,
        ReLit(text, ReSpaces1(text, ReLit(text, i, "CREATE")), "TABLE")),
      "#"))

\* the start of the group (\w+) of WITH\s+(\w+)\s+AS\s*\(
ReWithNameStart(text, i) == ReSpaces1(text, ReLit(text, i, "WITH"))

\* WITH\s+\w+\s+AS\s*\(
ReWithAs(text, i) ==
  ReLit(text,
    ReSpaces0(text,
      ReLit(text,
        ReSpaces1(text, ReWord1(text, ReWithNameStart(text, i))),
        "AS")),
    "(")

\* INTO\s+#\w+
ReIntoHash(text, i) ==
  ReWord1(text, ReLit(text, ReSpaces1(text, ReLit(text, i, "INTO")), "#"))

\* self.temp_table_patterns[k] matched at position i
TempPatternEnd(k, text, i) ==
  CASE k = 1 -> ReCreateTemp(text, i)
    [] k = 2 -> ReCreateHash(text, i)
    [] k = 3 -> ReWithAs(text, i)
    [] k = 4 -> ReIntoHash(text, i)

RECURSIVE FindIter(_, _, _)
\* re.finditer: the non-overlapping matches from left to right, each as
\* <<start, end>>
FindIter(k, text, i) ==
  LET starts == {j \in i..Len(text) : TempPatternEnd(k, text, j) # 0} IN
  IF starts = {} THEN <<>>
  ELSE LET b == CHOOSE j \in starts : \A m \in starts : j <= m
           e == TempPatternEnd(k, text, b)
       IN  <<(<<b, e>>)>> \o FindIter(k, text, e)

\* remaining.split()[0] if remaining.split() else ''
FirstWord(remaining) ==
  LET r == LStripChars(remaining, WhitespaceChars)
      e == CHOOSE j \in 1..(Len(r) + 1) :
             /\ (j = Len(r) + 1 \/ Ch(r, j) \in WhitespaceChars)
             /\ \A m \in 1..(j - 1) : Ch(r, m) \notin WhitespaceChars
  IN  SubSeq(r, 1, e - 1)

TempStripChars == {"(", ")", ";", ","}

RECURSIVE NamesAfterMatches(_, _)
\* the body of the loop over the matches of one pattern (lines 290-295)
NamesAfterMatches(text, matches) ==
  IF matches = <<>> THEN <<>>
  ELSE LET remaining  == Strip(SubSeq(text, Head(matches)[2], Len(text)))
           table_name == FirstWord(remaining)
           rest       == NamesAfterMatches(text, Tail(matches))
       IN  IF table_name # ""
           THEN <<StripChars(table_name, TempStripChars)>> \o rest
           ELSE rest

RECURSIVE CteNames(_, _)
\* match.group(1) of each match of cte_pattern (lines 298-301)
CteNames(text, matches) ==
  IF matches = <<>> THEN <<>>
  ELSE LET b == ReWithNameStart(text, Head(matches)[1])
       IN  <<SubSeq(text, b, ReWord1(text, b) - 1)>>
             \o CteNames(text, Tail(matches))

\* temp_tables as appended to, before the final list(set(...))
TempTablesAppended(query) ==
  NamesAfterMatches(query, FindIter(1, query, 1))
    \o NamesAfterMatches(query, FindIter(2, query, 1))
    \o NamesAfterMatches(query, FindIter(3, query, 1))
    \o NamesAfterMatches(query, FindIter(4, query, 1))
    \o CteNames(query, FindIter(3, query, 1))

_extract_temp_tables(query, seed) ==
  ListOfSet(Range(TempTablesAppended(query)), seed)

-----------------------------------------------------------------------------
(* _calculate_complexity *)

\* the if/elif chain of lines 375-380
BaseScore(query_type) ==
  IF query_type = "SELECT" THEN 1
  ELSE IF query_type \in {"INSERT", "UPDATE", "DELETE"} THEN 2
  ELSE IF query_type \in {"CREATE", "ALTER", "DROP"} THEN 3
  ELSE 0

\* a score that rounds the half point of an odd column count up
ComplexityRoundedUp(result) ==
  BaseScore(result.query_type)
    + Len(result.tables)
    + (Len(result.columns) + 1) \div 2
    + 2 * Len(result.join_types)
    + 3 * Len(result.temp_tables)
    + 4 * result.subqueries
    + Len(result.functions)
    + Len(result.conditions)

\* score becomes a float at the 0.5-per-column term; every value it takes is
\* a multiple of 0.5, so the model counts half points and int(score)
\* truncates the non-negative total once
_calculate_complexity(result) ==
  LET halves == 2 * BaseScore(result.query_type)
                  + 2 * (Len(result.tables) * 1)
                  + Len(result.columns)
                  + 2 * (Len(result.join_types) * 2)
                  + 2 * (Len(result.temp_tables) * 3)
                  + 2 * (result.subqueries * 4)
                  + 2 * (Len(result.functions) * 1)
                  + 2 * (Len(result.conditions) * 1)
  IN  halves \div 2

-----------------------------------------------------------------------------
(* _identify_change_areas *)

MsgManyTables ==
  "Query involves many tables - consider breaking into smaller queries"
MsgComplexJoins ==
  "Complex join structure - review for optimization opportunities"
MsgSubqueries ==
  "Multiple subqueries detected - consider using CTEs for better readability"
MsgHighComplexity ==
  "High complexity score - consider refactoring for maintainability"
MsgTempTables ==
  "Temporary tables used - ensure proper cleanup and consider alternatives"
MsgNoIssues == "No obvious issues detected"

MsgMissingTable(table) ==
  "Table '" \o table \o "' not found in provided metadata"

RECURSIVE MissingTableMessagesAnyCase(_, _)
\* a loop that compares table names with the metadata keys in lower case
MissingTableMessagesAnyCase(tables, table_metadata) ==
  IF tables = <<>> THEN <<>>
  ELSE (IF \A k \in DOMAIN table_metadata : Lower(k) # Lower(Head(tables))
        THEN <<MsgMissingTable(Head(tables))>> ELSE <<>>)
         \o MissingTableMessagesAnyCase(Tail(tables), table_metadata)

RECURSIVE MissingTableMessages(_, _)
\* the loop of lines 415-417 over result['tables']
MissingTableMessages(tables, table_metadata) ==
  IF tables = <<>> THEN <<>>
  ELSE (IF Head(tables) \notin DOMAIN table_metadata
        THEN <<MsgMissingTable(Head(tables))>> ELSE <<>>)
         \o MissingTableMessages(Tail(tables), table_metadata)

\* diagnostics that return the list as collected, with no sentinel
ChangeAreasNoSentinel(result, table_metadata) ==
  (IF Len(result.tables) > 5 THEN <<MsgManyTables>> ELSE <<>>)
    \o (IF Len(result.join_types) > 3 THEN <<MsgComplexJoins>> ELSE <<>>)
    \o (IF result.subqueries > 2 THEN <<MsgSubqueries>> ELSE <<>>)
    \o (IF result.complexity_score > 20 THEN <<MsgHighComplexity>> ELSE <<>>)
    \o (IF result.temp_tables # <<>> THEN <<MsgTempTables>> ELSE <<>>)
    \o (IF DOMAIN table_metadata # {}
        THEN MissingTableMessages(result.tables, table_metadata)
        ELSE <<>>)

\* diagnostics whose five rules form one if/elif chain: the first rule that
\* holds is the only one to report
ChangeAreasFirstRuleOnly(result, table_metadata) ==
  LET change_areas ==
        (IF Len(result.tables) > 5 THEN <<MsgManyTables>>
         ELSE IF Len(result.join_types) > 3 THEN <<MsgComplexJoins>>
         ELSE IF result.subqueries > 2 THEN <<MsgSubqueries>>
         ELSE IF result.complexity_score > 20 THEN <<MsgHighComplexity>>
         ELSE IF result.temp_tables # <<>> THEN <<MsgTempTables>>
         ELSE <<>>)
          \o (IF DOMAIN table_metadata # {}
              THEN MissingTableMessages(result.tables, table_metadata)
              ELSE <<>>)
  IN  IF change_areas = <<>> THEN <<MsgNoIssues>> ELSE change_areas

\* a metadata check that looks tables up with a default, leaving an entry
\* with no fields behind for every table it did not find
MetadataWithLookups(table_metadata, tables) ==
  IF DOMAIN table_metadata = {} THEN table_metadata
  ELSE [t \in DOMAIN table_metadata \cup Range(tables) |->
          IF t \in DOMAIN table_metadata THEN table_metadata[t] ELSE <<>>]

\* self.table_metadata after lines 414-417: `table not in
\* self.table_metadata` tests membership and stores nothing
MetadataAfterCheck(table_metadata, tables) == table_metadata

\* diagnostics that read the score the record was initialised with
ChangeAreasOnPlaceholderScore(result, table_metadata) ==
  LET placeholder == 0
      change_areas ==
        (IF Len(result.tables) > 5 THEN <<MsgManyTables>> ELSE <<>>)
          \o (IF Len(result.join_types) > 3 THEN <<MsgComplexJoins>> ELSE <<>>)
          \o (IF result.subqueries > 2 THEN <<MsgSubqueries>> ELSE <<>>)
          \o (IF placeholder > 20 THEN <<MsgHighComplexity>> ELSE <<>>)
          \o (IF result.temp_tables # <<>> THEN <<MsgTempTables>> ELSE <<>>)
          \o (IF DOMAIN table_metadata # {}
              THEN MissingTableMessages(result.tables, table_metadata)
              ELSE <<>>)
  IN  IF change_areas = <<>> THEN <<MsgNoIssues>> ELSE change_areas

_identify_change_areas(result, table_metadata) ==
  LET change_areas ==
        (IF Len(result.tables) > 5 THEN <<MsgManyTables>> ELSE <<>>)
          \o (IF Len(result.join_types) > 3 THEN <<MsgComplexJoins>> ELSE <<>>)
          \o (IF result.subqueries > 2 THEN <<MsgSubqueries>> ELSE <<>>)
          \o (IF result.complexity_score > 20
              THEN <<MsgHighComplexity>> ELSE <<>>)
          \o (IF result.temp_tables # <<>> THEN <<MsgTempTables>> ELSE <<>>)
          \o (IF DOMAIN table_metadata # {}
              THEN MissingTableMessages(result.tables, table_metadata)
              ELSE <<>>)
  IN  IF change_areas = <<>> THEN <<MsgNoIssues>> ELSE change_areas

-----------------------------------------------------------------------------
(* result records *)

\* query_id or 'unknown'; the model writes None as ""
IdOrUnknown(query_id) == IF query_id = "" THEN "unknown" ELSE query_id

_create_empty_result(query_id) ==
  [query_id |-> IdOrUnknown(query_id),
   original_query |-> "",
   query_type |-> "EMPTY",
   tables |-> <<>>,
   columns |-> <<>>,
   has_joins |-> FALSE,
   join_types |-> <<>>,
   temp_tables |-> <<>>,
   operations |-> <<>>,
   complexity_score |-> 0,
   change_areas |-> <<"Query is empty or invalid">>,
   subqueries |-> 0,
   functions |-> <<>>,
   conditions |-> <<>>]

\* an error record that keeps the stripped query
ErrorResultStripped(query_id, error, query) ==
  [_create_empty_result(query_id) EXCEPT
     !.original_query = Strip(query),
     !.query_type = "ERROR",
     !.change_areas = <<"Parsing error: " \o error>>]

\* an error record with one more key, error_message, for the captured message
ErrorResultWithMessageKey(query_id, error, query) ==
  [k \in DOMAIN _create_empty_result(query_id) \cup {"error_message"} |->
     CASE k = "error_message" -> error
       [] k = "original_query" -> query
       [] k = "query_type" -> "ERROR"
       [] k = "change_areas" -> <<"Parsing error: " \o error>>
       [] OTHER -> _create_empty_result(query_id)[k]]

_create_error_result(query_id, error, query) ==
  [query_id |-> IdOrUnknown(query_id),
   original_query |-> query,
   query_type |-> "ERROR",
   tables |-> <<>>,
   columns |-> <<>>,
   has_joins |-> FALSE,
   join_types |-> <<>>,
   temp_tables |-> <<>>,
   operations |-> <<>>,
   complexity_score |-> 0,
   change_areas |-> <<"Parsing error: " \o error>>,
   subqueries |-> 0,
   functions |-> <<>>,
   conditions |-> <<>>]

\* a result dict that extracts temp tables whatever the flag says
InitialResultAlwaysTemp(query, query_id, parsed, table_metadata, include_temp_tables, seed) ==
  [query_id |-> IdOrUnknown(query_id),
   original_query |-> Strip(query),
   query_type |-> _determine_query_type(query),
   tables |-> _extract_tables(parsed, seed),
   columns |-> _extract_columns(parsed, table_metadata, seed),
   has_joins |-> _detect_joins(query),
   join_types |-> _extract_join_types(query),
   temp_tables |-> _extract_temp_tables(query, seed),
   operations |-> _extract_operations(parsed, seed),
   complexity_score |-> 0,
   change_areas |-> <<>>,
   subqueries |-> _count_subqueries(parsed),
   functions |-> _extract_functions(parsed, seed),
   conditions |-> _extract_conditions(parsed)]

\* the dict literal of lines 74-89
InitialResult(query, query_id, parsed, table_metadata, include_temp_tables, seed) ==
  [query_id |-> IdOrUnknown(query_id),
   original_query |-> Strip(query),
   query_type |-> _determine_query_type(query),
   tables |-> _extract_tables(parsed, seed),
   columns |-> _extract_columns(parsed, table_metadata, seed),
   has_joins |-> _detect_joins(query),
   join_types |-> _extract_join_types(query),
   temp_tables |-> IF include_temp_tables
                   THEN _extract_temp_tables(query, seed) ELSE <<>>,
   operations |-> _extract_operations(parsed, seed),
   complexity_score |-> 0,
   change_areas |-> <<>>,
   subqueries |-> _count_subqueries(parsed),
   functions |-> _extract_functions(parsed, seed),
   conditions |-> _extract_conditions(parsed)]

_analyze_joins_detailed(query) ==
  [join_count |-> Len(_extract_join_types(query)),
   join_tables |-> <<>>,
   join_conditions |-> <<>>,
   cartesian_product_risk |-> FALSE]

\* col == field for a column name (str) and a field of the metadata (a dict
\* with the keys name, data_type, description): a str never equals a dict
StrEqualsField(col, field) == FALSE

\* col in fields
ColInFields(col, fields) ==
  \E i \in 1..Len(fields) : StrEqualsField(col, fields[i])

_analyze_column_usage(result, table_metadata) ==
  [total_columns |-> Len(result.columns),
   unique_columns |-> Cardinality(Range(result.columns)),
   repeated_columns |->
     ListOfSet({c \in Range(result.columns) :
                  Cardinality({i \in 1..Len(result.columns) :
                                 result.columns[i] = c}) > 1}, 0),
   metadata_matched |->
     Cardinality({pair \in (DOMAIN table_metadata)
                             \X (1..Len(result.columns)) :
                    ColInFields(result.columns[pair[2]],
                                table_metadata[pair[1]])})]

\* result with result[key] = value added (a dict item assignment of a new key)
WithKey(result, key, value) ==
  [k \in DOMAIN result \cup {key} |-> IF k = key THEN value ELSE result[k]]

-----------------------------------------------------------------------------
(* The queries analysed.  Each is the token sequence the lexer yields for  *)
(* its text; whitespace is one Whitespace token per character.             *)

ws == Tok("Whitespace", " ")
nl == Tok("Newline", "\n")
kw(v) == Tok("Keyword", v)
dml(v) == Tok("Keyword.DML", v)
ddl(v) == Tok("Keyword.DDL", v)
cte(v) == Tok("Keyword.CTE", v)
nm(v) == Tok("Name", v)
int(v) == Tok("Number.Integer", v)
cmp(v) == Tok("Operator.Comparison", v)
lpar == Tok("Punctuation", "(")
rpar == Tok("Punctuation", ")")
comma == Tok("Punctuation", ",")
dot == Tok("Punctuation", ".")
star == Tok("Wildcard", "*")

RECURSIVE Spaced(_)
\* the tokens of words written with one space between them
Spaced(words) ==
  IF Len(words) <= 1 THEN words
  ELSE <<Head(words), ws>> \o Spaced(Tail(words))

RECURSIVE Copies(_, _)
Copies(tok, n) == IF n = 0 THEN <<>> ELSE <<tok>> \o Copies(tok, n - 1)

\* the token the lexer yields for a statement's first word
StarterToken(word) ==
  LET u == Upper(word) IN
  IF u \in {"SELECT", "INSERT", "UPDATE", "DELETE", "MERGE", "UPSERT"}
  THEN dml(word)
  ELSE IF u \in {"CREATE", "DROP", "ALTER"} THEN ddl(word)
  ELSE IF u = "WITH" THEN cte(word)
  ELSE IF u = "EXPLAIN" THEN kw(word)
  ELSE nm(word)

StarterWords ==
  {"SELECT", "INSERT", "UPDATE", "DELETE", "CREATE", "DROP", "ALTER", "MERGE",
   "UPSERT", "WITH", "EXPLAIN", "SELECTED", "WITHDRAW", "x"}

\* <lead> <word> x, in upper and in lower case
StarterQueries ==
  {Copies(ws, lead) \o Spaced(<<StarterToken(w), nm("x")>>) :
     lead \in 0..MaxLead,
     w \in StarterWords \cup {Lower(v) : v \in StarterWords}}

JoinKinds ==
  <<"INNER JOIN", "LEFT JOIN", "RIGHT JOIN", "FULL JOIN", "CROSS JOIN",
    "NATURAL JOIN", "LEFT OUTER JOIN", "RIGHT OUTER JOIN", "FULL OUTER JOIN",
    "JOIN">>

TableNumber(i) == "t" \o Ch(Digits, i + 1)

RECURSIVE JoinTail(_, _)
\* <kind 1> t2 <kind 2> t3 ... up to table n + 1
JoinTail(i, n) ==
  IF i > n THEN <<>>
  ELSE <<ws, kw(JoinKinds[((i - 1) % Len(JoinKinds)) + 1]), ws,
         nm(TableNumber(i + 1))>> \o JoinTail(i + 1, n)

\* SELECT a FROM t1 <n joins>
JoinChain(n) ==
  Spaced(<<dml("SELECT"), nm("a"), kw("FROM"), nm("t1")>>) \o JoinTail(1, n)

JoinQueries ==
  {JoinChain(n) : n \in 1..MaxJoins}
    \cup {JoinChain(n) \o <<ws>>
            \o Spaced(<<kw("WHERE"), nm("x"), cmp("="), int("1")>>) :
          n \in 1..MaxJoins}

\* SELECT ((...(a)...)) with n pairs of parentheses
Nested(n) ==
  <<dml("SELECT"), ws>> \o Copies(lpar, n) \o <<nm("a")>> \o Copies(rpar, n)

NestedQueries ==
  {Copies(ws, lead) \o Nested(n) :
     lead \in 0..1, n \in 1..(GroupingDepthLimit + 1)}

\* a query the tokenizer rejects that also holds join and WHERE text
FailingJoinQuery ==
  Nested(GroupingDepthLimit + 1)
    \o <<ws>> \o Spaced(<<kw("FROM"), nm("t1"), kw("JOIN"), nm("t2"),
                           kw("WHERE"), nm("x"), cmp("="), int("1")>>)

BlankQueries == {Copies(ws, n) : n \in 0..MaxLead} \cup {<<nl>>, <<ws, nl>>}

FixedQueries ==
  { Spaced(<<dml("SELECT"), nm("a"), kw("FROM"), nm("t")>>),
    Spaced(<<dml("SELECT"), nm("ab"), kw("FROM"), nm("tt")>>),
    Spaced(<<dml("SELECT"), nm("email"), kw("FROM"), nm("users")>>),
    Spaced(<<dml("SELECT"), nm("id"), kw("FROM"), nm("orders")>>),
    Spaced(<<dml("SELECT"), nm("id"), kw("FROM"), nm("Users")>>),
    Spaced(<<dml("SELECT"), nm("id"), kw("FROM"), nm("users"), kw("JOIN"),
             nm("orders"), kw("ON"), nm("id"), cmp("="), nm("okey")>>),
    <<dml("SELECT"), ws, nm("a"), comma, ws, nm("b"), ws, kw("FROM"), ws,
      nm("t1"), comma, ws, nm("t2")>>,
    <<dml("SELECT"), ws, nm("a"), ws, kw("FROM"), ws, nm("sch"), dot,
      nm("tbl")>>,
    Spaced(<<dml("SELECT"), nm("a"), kw("FROM"), nm("[123]")>>),
    Spaced(<<dml("SELECT"), nm("a"), kw("FROM"), nm("[sch.tbl]")>>),
    <<dml("SELECT"), ws, nm("COUNT"), lpar, nm("id"), rpar, ws, kw("FROM"),
      ws, nm("orders"), ws, kw("WHERE"), ws, nm("id"), ws, cmp("="), ws,
      int("1"), ws, kw("GROUP BY"), ws, nm("id")>>,
    Spaced(<<dml("SELECT"), nm("a"), kw("FROM"), nm("t"), kw("WHERE"),
             nm("x"), cmp("="), int("1"), kw("LIMIT"), int("5")>>),
    <<dml("SELECT"), ws, nm("a"), ws, kw("FROM"), ws, lpar, dml("SELECT"),
      ws, nm("b"), ws, kw("FROM"), ws, nm("t2"), rpar, ws, nm("s")>>,
    Spaced(<<ddl("CREATE"), kw("TEMP"), kw("TABLE"), nm("tmp"), kw("AS"),
             dml("SELECT"), star, kw("FROM"), nm("x")>>),
    <<cte("WITH"), ws, nm("c"), ws, kw("AS"), ws, lpar, dml("SELECT"), ws,
      nm("a"), ws, kw("FROM"), ws, nm("t"), rpar, ws, dml("SELECT"), ws,
      nm("a"), ws, kw("FROM"), ws, nm("c")>>,
    Spaced(<<dml("UPDATE"), nm("users"), kw("SET"), nm("email"), cmp("="),
             int("1"), kw("WHERE"), nm("id"), cmp("="), int("2")>>),
    Spaced(<<dml("DELETE"), kw("FROM"), nm("orders"), kw("WHERE"), nm("id"),
             cmp("="), int("1")>>),
    Spaced(<<dml("INSERT"), kw("INTO"), nm("users"), kw("VALUES"), lpar,
             int("1"), rpar>>),
    Spaced(<<ddl("DROP"), kw("TABLE"), nm("users")>>),
    Spaced(<<ddl("ALTER"), kw("TABLE"), nm("orders"), nm("x")>>),
    Spaced(<<dml("SELECT"), nm("[a.b.c]"), kw("FROM"), nm("tt")>>),
    <<dml("SELECT"), ws, nm("a"), ws, kw("FROM"), ws, nm("t"), ws,
      kw("WHERE"), ws, nm("x"), ws, kw("IN"), ws, lpar, dml("SELECT"), ws,
      nm("b"), ws, kw("FROM"), ws, nm("u"), ws, kw("WHERE"), ws, nm("y"),
      ws, cmp("="), ws, int("1"), rpar>> }

Corpus ==
  FixedQueries \cup StarterQueries \cup JoinQueries \cup NestedQueries
    \cup BlankQueries \cup {FailingJoinQuery}

\* the optional query_id argument; "" stands for None
QueryIds == {"", "Query_1"}

Field(name, data_type) ==
  [name |-> name, data_type |-> data_type, description |-> ""]

\* the table metadata an analyzer may be constructed with: none, or what
\* ExcelProcessor builds (table name -> non-empty list of field dicts)
MetadataChoices ==
  { <<>>,
    [t \in {"users"} |-> <<Field("id", "int"), Field("email", "varchar")>>],
    [t \in {"users", "orders", "t"} |-> <<Field("id", "int")>>] }

-----------------------------------------------------------------------------
(* The analyzer and one analyze_query call at a time *)

VARIABLES
  table_metadata,          \* self.table_metadata
  include_temp_tables,     \* self.include_temp_tables
  detailed_join_analysis,  \* self.detailed_join_analysis
  column_usage_tracking,   \* self.column_usage_tracking
  hash_seed,               \* the process's string hash seed
  pc,                      \* position in analyze_query
  query,                   \* argument query
  query_id,                \* argument query_id
  parsed,                  \* local parsed (its flattened tokens)
  result,                  \* local result
  exc,                     \* the exception raised inside the try block
  returned,                \* what the caller received
  queries,                 \* src/app.py: the batch of query strings
  loop_i,                  \* src/app.py: i of the for loop (queries handled)
  results,                 \* src/app.py: the list results
  calls                    \* the locals of the calls of a batch run at once

vars ==
  <<table_metadata, include_temp_tables, detailed_join_analysis,
    column_usage_tracking, hash_seed, pc, query, query_id, parsed, result,
    exc, returned, queries, loop_i, results, calls>>

self_vars ==
  <<table_metadata, include_temp_tables, detailed_join_analysis,
    column_usage_tracking, hash_seed>>

\* the caller's variables in src/app.py
app_vars == <<queries, loop_i, results>>

\* the analyzer's fields other than the metadata map, and the hash seed
flag_vars ==
  <<include_temp_tables, detailed_join_analysis, column_usage_tracking,
    hash_seed>>

NoResult == [none |-> TRUE]
NoException == [cls |-> "", msg |-> ""]

\* the text of each query of the corpus
CorpusText == [toks \in Corpus |-> QueryText(toks)]

\* sqlparse.parse(query)[0].flatten(): the tokens whose text is the query
Tokenize(text) == CHOOSE toks \in Corpus : CorpusText[toks] = text

\* the classes `except Exception` catches, among those that can be raised
ExceptionClasses == {"SQLParseError", "RecursionError", "Exception"}

\* an except clause that names one unrelated class
CaughtOnlyValueError(cls) == cls = "ValueError"

\* line 107: except Exception as e
CaughtByExcept(cls) == cls \in ExceptionClasses

\* a test that forgets the whitespace-only case
IsEmptyOnlyWhenNoText(q) == q = ""

\* line 66: not query or not query.strip()
IsEmptyQuery(q) == q = "" \/ Strip(q) = ""

\* SQLAnalyzer(table_metadata, include_temp_tables, detailed_join_analysis,
\* column_usage_tracking)
Init ==
  /\ table_metadata \in MetadataChoices
  /\ include_temp_tables \in BOOLEAN
  /\ detailed_join_analysis \in BOOLEAN
  /\ column_usage_tracking \in BOOLEAN
  /\ hash_seed \in 0..MaxHashSeed
  /\ pc = "idle"
  /\ query = ""
  /\ query_id = ""
  /\ parsed = <<>>
  /\ result = NoResult
  /\ exc = NoException
  /\ returned = NoResult
  /\ queries = <<>>
  /\ loop_i = 0
  /\ results = <<>>
  /\ calls = <<>>

\* analyze_query(query, query_id) is entered: lines 66-67
Call(toks, id) ==
  /\ pc = "idle"
  /\ query' = CorpusText[toks]
  /\ query_id' = id
  /\ parsed' = <<>>
  /\ result' = NoResult
  /\ exc' = NoException
  /\ IF IsEmptyQuery(query')
     THEN /\ returned' = _create_empty_result(id)
          /\ pc' = "done"
     ELSE /\ returned' = NoResult
          /\ pc' = "parse"
  /\ UNCHANGED self_vars
  /\ UNCHANGED <<app_vars, calls>>

\* line 71, and lines 107-108 when it raises
Parse ==
  /\ pc = "parse"
  /\ LET toks == Tokenize(query) IN
     IF TokenizerRaises(toks)
     THEN LET e == [cls |-> "SQLParseError", msg |-> ParseErrorMessage] IN
          /\ exc' = e
          /\ parsed' = parsed
          /\ IF CaughtByExcept(e.cls)
             THEN /\ returned' = _create_error_result(query_id, e.msg, query)
                  /\ pc' = "done"
             ELSE /\ returned' = returned
                  /\ pc' = "raised"
     ELSE /\ parsed' = toks
          /\ pc' = "extract"
          /\ UNCHANGED <<exc, returned>>
  /\ UNCHANGED <<query, query_id, result>>
  /\ UNCHANGED self_vars
  /\ UNCHANGED <<app_vars, calls>>

\* lines 74-89
Extract ==
  /\ pc = "extract"
  /\ result' = InitialResult(query, query_id, parsed, table_metadata,
                             include_temp_tables, hash_seed)
  /\ pc' = "score"
  /\ UNCHANGED <<query, query_id, parsed, exc, returned>>
  /\ UNCHANGED self_vars
  /\ UNCHANGED <<app_vars, calls>>

\* line 92
Score ==
  /\ pc = "score"
  /\ result' = [result EXCEPT !.complexity_score = _calculate_complexity(result)]
  /\ pc' = "diagnose"
  /\ UNCHANGED <<query, query_id, parsed, exc, returned>>
  /\ UNCHANGED self_vars
  /\ UNCHANGED <<app_vars, calls>>

\* line 95
Diagnose ==
  /\ pc = "diagnose"
  /\ result' = [result EXCEPT
                  !.change_areas = _identify_change_areas(result, table_metadata)]
  /\ table_metadata' = MetadataAfterCheck(table_metadata, result.tables)
  /\ pc' = "attach"
  /\ UNCHANGED <<query, query_id, parsed, exc, returned>>
  /\ UNCHANGED flag_vars
  /\ UNCHANGED <<app_vars, calls>>

\* join details attached whenever the flag is set, joins or not
WithJoinDetailsAlways(r) ==
  IF detailed_join_analysis
  THEN WithKey(r, "join_details", _analyze_joins_detailed(query))
  ELSE r

\* lines 98-99
WithJoinDetails(r) ==
  IF detailed_join_analysis /\ r.has_joins
  THEN WithKey(r, "join_details", _analyze_joins_detailed(query))
  ELSE r

\* lines 102-103
WithColumnUsage(r) ==
  IF column_usage_tracking
  THEN WithKey(r, "column_usage", _analyze_column_usage(r, table_metadata))
  ELSE r

\* lines 97-105
Attach ==
  /\ pc = "attach"
  /\ result' = WithColumnUsage(WithJoinDetails(result))
  /\ returned' = result'
  /\ pc' = "done"
  /\ UNCHANGED <<query, query_id, parsed, exc>>
  /\ UNCHANGED self_vars
  /\ UNCHANGED <<app_vars, calls>>

\* the caller has taken the returned record; the call's locals are gone and
\* the analyzer is ready for the next call (the loop of src/app.py:130-132)
Return ==
  /\ pc = "done"
  /\ pc' = "idle"
  /\ query' = ""
  /\ query_id' = ""
  /\ parsed' = <<>>
  /\ result' = NoResult
  /\ exc' = NoException
  /\ returned' = NoResult
  /\ UNCHANGED self_vars
  /\ UNCHANGED <<app_vars, calls>>

Next ==
  \/ \E toks \in Corpus, id \in QueryIds : Call(toks, id)
  \/ Parse
  \/ Extract
  \/ Score
  \/ Diagnose
  \/ Attach
  \/ Return

Spec == Init /\ [][Next]_vars

-----------------------------------------------------------------------------
(* The batch loop of src/app.py, lines 116-136 *)

\* the longest batch
MaxBatch == 2

\* str(i) for a one-digit i
IntText(i) == Ch(Digits, i + 1)

\* a label that forgets the + 1
QueryLabelZeroBased(i) == "Query_" \o IntText(i)

\* f"Query_{i+1}" for the index i of enumerate(queries)
QueryLabel(i) == "Query_" \o IntText(i + 1)

\* the queries a batch is made of: stripped and non-blank (line 102); the
\* second one nests too deep for the tokenizer
BatchQueries ==
  { "SELECT id FROM users JOIN orders ON id = okey",
    QueryText(Nested(GroupingDepthLimit + 1)),
    "CREATE TEMP TABLE tmp AS SELECT * FROM x" }

\* the button is disabled while queries is empty (line 116)
Batches == UNION {[1..n -> BatchQueries] : n \in 1..MaxBatch}

\* the analyzer of lines 121-126 and the empty list of line 128
BatchInit ==
  /\ table_metadata \in MetadataChoices
  /\ include_temp_tables \in BOOLEAN
  /\ detailed_join_analysis \in BOOLEAN
  /\ column_usage_tracking \in BOOLEAN
  /\ hash_seed \in 0..MaxHashSeed
  /\ pc = "idle"
  /\ query = ""
  /\ query_id = ""
  /\ parsed = <<>>
  /\ result = NoResult
  /\ exc = NoException
  /\ returned = NoResult
  /\ queries \in Batches
  /\ loop_i = 0
  /\ results = <<>>
  /\ calls = <<>>

\* lines 129-131: the next iteration calls analyze_query
BatchCall ==
  /\ loop_i < Len(queries)
  /\ Call(Tokenize(queries[loop_i + 1]), QueryLabel(loop_i))

\* line 132 after a return, lines 133-134 after an exception: the result is
\* appended, or the query is reported and left out; the loop moves on
Collect ==
  /\ pc \in {"done", "raised"}
  /\ results' = IF pc = "done" THEN Append(results, returned) ELSE results
  /\ loop_i' = loop_i + 1
  /\ pc' = "idle"
  /\ query' = ""
  /\ query_id' = ""
  /\ parsed' = <<>>
  /\ result' = NoResult
  /\ exc' = NoException
  /\ returned' = NoResult
  /\ UNCHANGED <<self_vars, queries, calls>>

BatchNext ==
  \/ BatchCall
  \/ Parse
  \/ Extract
  \/ Score
  \/ Diagnose
  \/ Attach
  \/ Collect

BatchSpec == BatchInit /\ [][BatchNext]_vars

-----------------------------------------------------------------------------
(* The calls of a batch run at once on the one analyzer of lines 121-126 *)

\* the queries of such a batch; the second one nests too deep
ParallelQueries ==
  { "SELECT id FROM users JOIN orders ON id = okey",
    QueryText(Nested(GroupingDepthLimit + 1)) }

ParallelBatches == UNION {[1..n -> ParallelQueries] : n \in 1..MaxBatch}

\* the locals of a call that has been handed its arguments
EnteredCall(q, id) ==
  [pc |-> "start", query |-> q, query_id |-> id, parsed |-> <<>>,
   result |-> NoResult, exc |-> NoException, returned |-> NoResult]

\* one step of analyze_query on the locals c of a call, on an analyzer with
\* metadata tm and flags itt, dja, cut: lines 66-67, 71 (and 107-108), 74-89,
\* 92, 95, 97-105
StepOf(c, tm, itt, dja, cut, seed) ==
  CASE c.pc = "start" ->
         IF IsEmptyQuery(c.query)
         THEN [c EXCEPT !.returned = _create_empty_result(c.query_id),
                        !.pc = "done"]
         ELSE [c EXCEPT !.pc = "parse"]
    [] c.pc = "parse" ->
         LET toks == Tokenize(c.query)
             e == [cls |-> "SQLParseError", msg |-> ParseErrorMessage]
         IN  IF TokenizerRaises(toks)
             THEN IF CaughtByExcept(e.cls)
                  THEN [c EXCEPT
                          !.exc = e,
                          !.returned =
                            _create_error_result(c.query_id, e.msg, c.query),
                          !.pc = "done"]
                  ELSE [c EXCEPT !.exc = e, !.pc = "raised"]
             ELSE [c EXCEPT !.parsed = toks, !.pc = "extract"]
    [] c.pc = "extract" ->
         [c EXCEPT
            !.result = InitialResult(c.query, c.query_id, c.parsed, tm, itt, seed),
            !.pc = "score"]
    [] c.pc = "score" ->
         [c EXCEPT
            !.result = [@ EXCEPT !.complexity_score = _calculate_complexity(c.result)],
            !.pc = "diagnose"]
    [] c.pc = "diagnose" ->
         [c EXCEPT
            !.result = [@ EXCEPT !.change_areas = _identify_change_areas(c.result, tm)],
            !.pc = "attach"]
    [] c.pc = "attach" ->
         LET r3 == IF dja /\ c.result.has_joins
                   THEN WithKey(c.result, "join_details",
                                _analyze_joins_detailed(c.query))
                   ELSE c.result
             r4 == IF cut
                   THEN WithKey(r3, "column_usage", _analyze_column_usage(r3, tm))
                   ELSE r3
         IN  [c EXCEPT !.result = r4, !.returned = r4, !.pc = "done"]
    [] OTHER -> c

\* locals kept on the analyzer instead: every call reads the token list the
\* first call stored
LocalsOnInstance(cs, i) == [cs[i] EXCEPT !.parsed = cs[1].parsed]

\* parsed and result are local variables of analyze_query (lines 71, 74):
\* call i reads and writes its own
LocalsOf(cs, i) == cs[i]

\* the analyzer the calls share is constructed with the three flags all on
\* (the defaults of lines 13-14) or all off
ParallelInit ==
  /\ table_metadata \in MetadataChoices
  /\ include_temp_tables \in BOOLEAN
  /\ detailed_join_analysis = include_temp_tables
  /\ column_usage_tracking = include_temp_tables
  /\ hash_seed \in 0..MaxHashSeed
  /\ pc = "idle"
  /\ query = ""
  /\ query_id = ""
  /\ parsed = <<>>
  /\ result = NoResult
  /\ exc = NoException
  /\ returned = NoResult
  /\ queries \in ParallelBatches
  /\ loop_i = 0
  /\ results = <<>>
  /\ calls = [i \in 1..Len(queries) |-> EnteredCall(queries[i], QueryLabel(i - 1))]

\* call i takes its next step, whatever the other calls are doing
CallStep(i) ==
  /\ calls[i].pc \notin {"done", "raised"}
  /\ calls' = [calls EXCEPT
                ![i] = StepOf(LocalsOf(calls, i), table_metadata,
                              include_temp_tables, detailed_join_analysis,
                              column_usage_tracking, hash_seed)]
  /\ table_metadata' =
       IF calls[i].pc = "diagnose"
       THEN MetadataAfterCheck(table_metadata, calls[i].result.tables)
       ELSE table_metadata
  /\ UNCHANGED <<flag_vars, app_vars>>
  /\ UNCHANGED <<pc, query, query_id, parsed, result, exc, returned>>

ParallelNext == \E i \in 1..Len(calls) : CallStep(i)

ParallelSpec == ParallelInit /\ [][ParallelNext]_vars

-----------------------------------------------------------------------------
(* Properties *)

\* the keys of the dict literals of lines 74-89, 112-127 and 131-146
ResultKeys ==
  {"query_id", "original_query", "query_type", "tables", "columns",
   "has_joins", "join_types", "temp_tables", "operations",
   "complexity_score", "change_areas", "subqueries", "functions",
   "conditions"}

\* a call has returned a record to its caller
Returned == pc = "done"

\* the returned record is neither the EMPTY nor the ERROR record
Analysed == Returned /\ returned.query_type \notin {"EMPTY", "ERROR"}

\* every collection field of record r is empty
CollectionsEmpty(r) ==
  /\ r.tables = <<>>
  /\ r.columns = <<>>
  /\ r.join_types = <<>>
  /\ r.temp_tables = <<>>
  /\ r.operations = <<>>
  /\ r.functions = <<>>
  /\ r.conditions = <<>>

\* q consists of whitespace characters only (or of nothing)
Blank(q) == \A i \in 1..Len(q) : Ch(q, i) \in WhitespaceChars

\* the positions of a call that has neither returned nor raised
InProgress == {"parse", "extract", "score", "diagnose", "attach"}

\* the number of steps a call at position p has yet to take, at most
StepsLeft(p) ==
  CASE p = "parse" -> 5
    [] p = "extract" -> 4
    [] p = "score" -> 3
    [] p = "diagnose" -> 2
    [] p = "attach" -> 1
    [] OTHER -> 0

\* a step of a call under way leaves fewer steps to take
StepsTowardsReturn == (pc \in InProgress) => (StepsLeft(pc') < StepsLeft(pc))

\* what the next step of a call under way reads is there for it to read: the
\* token list before the extractors, the result record before the scorer,
\* the diagnostics and the optional attachments
StepInputsReady ==
  /\ pc = "extract" => parsed \in Corpus
  /\ pc \in {"score", "diagnose", "attach"} =>
       /\ result # NoResult
       /\ ResultKeys \subseteq DOMAIN result

\* C1: every call of analyze_query, whatever the query, the configuration
\* and the metadata, comes to an end and hands a result record with all the
\* result keys to its caller (a call under way has what its next step reads,
\* and each step brings it closer to the return); no exception raised by the
\* tokenizer or by a later step ever propagates to the caller.
C1_TotalNoEscape ==
  /\ [](pc # "raised")
  /\ [](Returned => ResultKeys \subseteq DOMAIN returned)
  /\ [](pc \in InProgress => StepInputsReady)
  /\ [][StepsTowardsReturn]_vars

\* C1 witness: the tokenizer raised and the caller still received a record
C1_Witness ==
  /\ Returned
  /\ exc # NoException
  /\ ResultKeys \subseteq DOMAIN returned

\* C2: the returned query_type is EMPTY exactly when the query is empty or
\* whitespace-only; the EMPTY record has every collection empty and the one
\* change area "Query is empty or invalid"; the classifier never yields
\* EMPTY for a non-blank query.
C2_EmptyIffBlank ==
  /\ Returned =>
       /\ (returned.query_type = "EMPTY") <=> Blank(query)
       /\ returned.query_type = "EMPTY" =>
            /\ CollectionsEmpty(returned)
            /\ returned.change_areas = <<"Query is empty or invalid">>
  /\ (pc = "score" /\ ~Blank(query)) => result.query_type # "EMPTY"

\* C2 witness: a whitespace-only query (not the empty string) returned EMPTY
C2_Witness ==
  /\ Returned
  /\ query # ""
  /\ Blank(query)
  /\ returned.query_type = "EMPTY"

\* C3: the returned query_type is ERROR exactly when a step inside the try
\* block raised; the ERROR record has the single change area
\* "Parsing error: <message>", every collection empty, and original_query
\* equal to the query as passed in, not stripped.
C3_ErrorIffRaised ==
  Returned =>
    /\ (returned.query_type = "ERROR") <=> (exc # NoException)
    /\ returned.query_type = "ERROR" =>
         /\ returned.change_areas = <<"Parsing error: " \o exc.msg>>
         /\ CollectionsEmpty(returned)
         /\ returned.original_query = query

\* C3 witness: an ERROR record for a query that starts with whitespace, so
\* that the verbatim text differs from the stripped text
C3_Witness ==
  /\ Returned
  /\ returned.query_type = "ERROR"
  /\ Strip(query) # query
  /\ returned.original_query = query

\* the keys under which a record could carry the failure message on its own
ErrorMessageKeys == {"error_message", "errorMessage"}

SomeRuleFired(r) ==
  \/ Len(r.tables) > 5
  \/ Len(r.join_types) > 3
  \/ r.subqueries > 2
  \/ r.complexity_score > 20
  \/ r.temp_tables # <<>>
  \/ /\ DOMAIN table_metadata # {}
     /\ \E i \in 1..Len(r.tables) : r.tables[i] \notin DOMAIN table_metadata

\* C5: no returned record, EMPTY, ERROR or analysed, has an empty
\* change_areas; for an analysed query "No obvious issues detected" is in the
\* list exactly when no diagnostic rule fired, and then it is the only entry.
C5_ChangeAreasNeverEmpty ==
  Returned =>
    /\ returned.change_areas # <<>>
    /\ Analysed =>
         /\ InSeq(MsgNoIssues, returned.change_areas) <=> ~SomeRuleFired(returned)
         /\ InSeq(MsgNoIssues, returned.change_areas) =>
              returned.change_areas = <<MsgNoIssues>>

\* C5 witness: an analysed query on which no rule fired
C5_Witness ==
  /\ Analysed
  /\ ~SomeRuleFired(returned)
  /\ returned.change_areas = <<MsgNoIssues>>

\* the keyword order the classifier is said to try
ClassifierOrder ==
  <<"SELECT", "INSERT", "UPDATE", "DELETE", "CREATE", "DROP", "ALTER",
    "MERGE", "UPSERT">>

\* the type the classifier is said to give a query
ExpectedQueryType(q) ==
  LET u == Strip(Upper(q))
      hits == {i \in 1..Len(ClassifierOrder) : StartsWith(u, ClassifierOrder[i])}
  IN  IF hits # {}
      THEN ClassifierOrder[CHOOSE i \in hits : \A j \in hits : i <= j]
      ELSE IF StartsWith(u, "WITH") THEN "CTE"
      ELSE "UNKNOWN"

\* C6: the classifier gives the first of SELECT, INSERT, UPDATE, DELETE,
\* CREATE, DROP, ALTER, MERGE, UPSERT that is a prefix of the uppercased,
\* stripped query, CTE when none is and WITH is a prefix, UNKNOWN otherwise;
\* the letter case of the query and leading whitespace do not change it.
C6_ClassifierPrefixOrder ==
  pc = "score" =>
    /\ result.query_type = ExpectedQueryType(query)
    /\ _determine_query_type(Lower(query)) = result.query_type
    /\ _determine_query_type(Upper(query)) = result.query_type
    /\ _determine_query_type(" " \o query) = result.query_type
    /\ _determine_query_type("\n\t  " \o query) = result.query_type

\* C6 witness: a lower-case query behind leading whitespace classified by
\* its keyword
C6_Witness ==
  /\ pc = "score"
  /\ query = " select x"
  /\ result.query_type = "SELECT"

\* the base score each query type is said to have
ClaimedBase(t) ==
  CASE t = "SELECT" -> 1
    [] t \in {"INSERT", "UPDATE", "DELETE"} -> 2
    [] t \in {"CREATE", "ALTER", "DROP"} -> 3
    [] OTHER -> 0

\* the whole points of record r, the column term left out
WholePoints(r) ==
  ClaimedBase(r.query_type) + Len(r.tables) + 2 * Len(r.join_types)
    + 3 * Len(r.temp_tables) + 4 * r.subqueries + Len(r.functions)
    + Len(r.conditions)

\* C7: the complexity score of an analysed query is the floor of base +
\* tables + 0.5*columns + 2*join types + 3*temp tables + 4*subqueries +
\* functions + conditions, with base 1 for SELECT, 2 for INSERT, UPDATE and
\* DELETE, 3 for CREATE, ALTER and DROP and 0 otherwise; the sum is truncated
\* once, so n columns add n/2 when n is even and (n-1)/2 when n is odd, and
\* the score is never negative.
C7_ScoreFormula ==
  Analysed =>
    LET n == Len(returned.columns) IN
    /\ 2 * returned.complexity_score <= 2 * WholePoints(returned) + n
    /\ 2 * WholePoints(returned) + n < 2 * (returned.complexity_score + 1)
    /\ n % 2 = 1 =>
         returned.complexity_score = WholePoints(returned) + (n - 1) \div 2
    /\ n % 2 = 0 =>
         returned.complexity_score = WholePoints(returned) + n \div 2
    /\ returned.complexity_score >= 0

\* C7 witness: an analysed query with an odd number of columns
C7_Witness ==
  /\ Analysed
  /\ Len(returned.columns) % 2 = 1
  /\ returned.complexity_score > 0

\* C8 as stated: "SELECT a FROM t" without metadata is a SELECT over the one
\* table t, without joins, of complexity 2 (base 1, one table 1, one column
\* whose half point is truncated).
C8_Example ==
  (Returned /\ query = "SELECT a FROM t" /\ DOMAIN table_metadata = {}) =>
    /\ returned.query_type = "SELECT"
    /\ Range(returned.tables) = {"t"}
    /\ returned.has_joins = FALSE
    /\ returned.complexity_score = 2

\* the messages of the five rules that hold of record r, in their order
RuleMessages(r) ==
  LET m1 == IF Len(r.tables) > 5 THEN <<MsgManyTables>> ELSE <<>>
      m2 == IF Len(r.join_types) > 3 THEN <<MsgComplexJoins>> ELSE <<>>
      m3 == IF r.subqueries > 2 THEN <<MsgSubqueries>> ELSE <<>>
      m4 == IF r.complexity_score > 20 THEN <<MsgHighComplexity>> ELSE <<>>
      m5 == IF Len(r.temp_tables) > 0 THEN <<MsgTempTables>> ELSE <<>>
  IN  m1 \o m2 \o m3 \o m4 \o m5

\* the indices of r.tables whose table is no key of the metadata
MissingIndices(r) ==
  IF DOMAIN table_metadata = {} THEN {}
  ELSE {i \in 1..Len(r.tables) : r.tables[i] \notin DOMAIN table_metadata}

\* sequence s holds exactly the missing-table messages of r, in the order of
\* r.tables
IsMissingList(s, r) ==
  /\ Len(s) = Cardinality(MissingIndices(r))
  /\ \A k \in 1..Len(s) :
       \E i \in MissingIndices(r) :
         /\ s[k] = MsgMissingTable(r.tables[i])
         /\ Cardinality({j \in MissingIndices(r) : j < i}) = k - 1

\* C9: the change areas of an analysed query are the messages of the rules
\* that hold (more than 5 tables, more than 3 join types, more than 2
\* subqueries, score above 20, any temp table) in that order, each rule
\* on its own, then the missing-table messages in the order of the tables
\* list; or the sentinel alone when that list is empty.
C9_ChangeAreasExact ==
  Analysed =>
    LET rules == RuleMessages(returned)
        ca    == returned.change_areas
    IN  /\ Len(returned.tables) > 5 => InSeq(MsgManyTables, ca)
        /\ IF rules = <<>> /\ MissingIndices(returned) = {}
           THEN ca = <<MsgNoIssues>>
           ELSE /\ Len(ca) >= Len(rules)
                /\ SubSeq(ca, 1, Len(rules)) = rules
                /\ IsMissingList(SubSeq(ca, Len(rules) + 1, Len(ca)), returned)

\* C9 witness: several rules fired on one query and a table was missing
C9_Witness ==
  /\ Analysed
  /\ Len(returned.tables) > 5
  /\ Len(returned.join_types) > 3
  /\ MissingIndices(returned) # {}
  /\ Len(returned.change_areas) > 3

\* the number of entries of sequence s equal to m
CountOf(m, s) == Cardinality({k \in 1..Len(s) : s[k] = m})

\* C10: with a non-empty metadata map the change areas hold exactly one
\* message for each extracted table that is no key of the map, compared
\* case-sensitively, and none for a table that is a key, and the query is
\* still analysed; without metadata no missing-table message is emitted.
C10_MissingTableMessages ==
  (Returned /\ exc = NoException /\ ~Blank(query)) =>
    /\ returned.query_type # "ERROR"
    /\ \A i \in 1..Len(returned.tables) :
         CountOf(MsgMissingTable(returned.tables[i]), returned.change_areas)
           = IF /\ DOMAIN table_metadata # {}
                /\ returned.tables[i] \notin DOMAIN table_metadata
             THEN 1 ELSE 0
    /\ DOMAIN table_metadata = {} =>
         \A k \in 1..Len(returned.change_areas) :
           ~StartsWith(returned.change_areas[k], "Table '")

\* C10 witness: the metadata knows users, the query reads Users and the
\* change areas report it missing
C10_Witness ==
  /\ Analysed
  /\ "users" \in DOMAIN table_metadata
  /\ InSeq("Users", returned.tables)
  /\ InSeq(MsgMissingTable("Users"), returned.change_areas)

\* the query of the temp-table example
CreateTempQuery == "CREATE TEMP TABLE tmp AS SELECT * FROM x"

\* C11: with include_temp_tables off, temp_tables is empty for every query,
\* the score has no temp-table term and the temp-tables message is absent;
\* with it on, "CREATE TEMP TABLE tmp AS SELECT * FROM x" has tmp among its
\* temp tables.
C11_TempTablesFlag ==
  Analysed =>
    /\ ~include_temp_tables =>
         /\ returned.temp_tables = <<>>
         /\ ~InSeq(MsgTempTables, returned.change_areas)
         /\ returned.complexity_score =
              (2 * (WholePoints(returned) - 3 * Len(returned.temp_tables))
                 + Len(returned.columns)) \div 2
    /\ (include_temp_tables /\ query = CreateTempQuery) =>
         InSeq("tmp", returned.temp_tables)

\* C11 witness: the temp-table example analysed with the flag off
C11_Witness ==
  /\ Analysed
  /\ ~include_temp_tables
  /\ query = CreateTempQuery
  /\ returned.temp_tables = <<>>

\* what analyze_query(q, id) returns on an analyzer constructed with
\* metadata tm and the flags itt, dja, cut, in a process whose string hash
\* seed is seed: lines 66-108 run from entry to return
AnalysisOf(q, id, tm, itt, dja, cut, seed) ==
  IF IsEmptyQuery(q) THEN _create_empty_result(id)
  ELSE
    LET toks == Tokenize(q) IN
    IF TokenizerRaises(toks)
    THEN _create_error_result(id, ParseErrorMessage, q)
    ELSE
      LET r0 == InitialResult(q, id, toks, tm, itt, seed)
          r1 == [r0 EXCEPT !.complexity_score = _calculate_complexity(r0)]
          r2 == [r1 EXCEPT !.change_areas = _identify_change_areas(r1, tm)]
          r3 == IF dja /\ r2.has_joins
                THEN WithKey(r2, "join_details", _analyze_joins_detailed(q))
                ELSE r2
      IN  IF cut
          THEN WithKey(r3, "column_usage", _analyze_column_usage(r3, tm))
          ELSE r3

\* C12 as stated: the returned record is a function of the query, the
\* query id, the configuration and the metadata alone, the order of the
\* elements of tables, columns, temp_tables, operations and functions
\* included: a call with the same arguments in any process returns the same.
C12_SameArgsSameResult ==
  Returned =>
    \A seed \in 0..MaxHashSeed :
      AnalysisOf(query, query_id, table_metadata, include_temp_tables,
                 detailed_join_analysis, column_usage_tracking, seed)
        = returned

\* a step leaves the analyzer as it was constructed
AnalyzerUntouched ==
  /\ table_metadata' = table_metadata
  /\ include_temp_tables' = include_temp_tables
  /\ detailed_join_analysis' = detailed_join_analysis
  /\ column_usage_tracking' = column_usage_tracking

\* C13: no step of analyze_query, on the EMPTY, the ERROR or the analysed
\* path, changes the metadata map or the configuration flags (the keyword
\* and pattern tables are fixed definitions that no action can assign).
C13_AnalyzerUnchanged == [][AnalyzerUntouched]_vars

\* C13 witness: a call that consulted a non-empty metadata map and found a
\* table missing from it has returned
C13_Witness ==
  /\ Analysed
  /\ DOMAIN table_metadata # {}
  /\ \E i \in 1..Len(returned.tables) :
       /\ returned.tables[i] \notin DOMAIN table_metadata
       /\ InSeq(MsgMissingTable(returned.tables[i]), returned.change_areas)

\* the label of the k-th query of a batch, k counted from 1
PositionLabel(k) ==
  "Query_" \o <<"1", "2", "3", "4", "5", "6", "7", "8", "9">>[k]

\* the loop of src/app.py has gone through the whole batch
BatchDone == pc = "idle" /\ queries # <<>> /\ loop_i = Len(queries)

\* C14: the batch loop appends one result per query handled, in input
\* order, the k-th (from 1) labelled "Query_k" and being the result of the
\* k-th query; at the end there are as many results as queries, ERROR
\* results included.
C14_BatchInOrder ==
  /\ Len(results) = loop_i
  /\ \A k \in 1..Len(results) :
       /\ results[k].query_id = PositionLabel(k)
       /\ results[k].original_query = queries[k]
  /\ BatchDone => Len(results) = Len(queries)

\* C14 witness: a finished batch of two whose first query ended in ERROR
C14_Witness ==
  /\ BatchDone
  /\ Len(results) = 2
  /\ results[1].query_type = "ERROR"
  /\ results[2].query_type \notin {"ERROR", "EMPTY"}

\* what each query of a parallel batch returns when it is analysed alone,
\* as the k-th query, under each configuration
AloneResult ==
  [q \in ParallelQueries, k \in 1..MaxBatch, tm \in MetadataChoices,
   flag \in BOOLEAN, seed \in 0..MaxHashSeed |->
     AnalysisOf(q, PositionLabel(k), tm, flag, flag, flag, seed)]

\* whether the tokenizer raises on each query of a parallel batch
QueryFails == [q \in ParallelQueries |-> TokenizerRaises(Tokenize(q))]

\* the calls of the batch that have returned
ReturnedCalls == {i \in 1..Len(calls) : calls[i].pc = "done"}

\* every call that has returned got what its query gets when analysed alone;
\* none raised; the ERROR records are those of the queries that fail
EachAsAlone ==
  /\ \A i \in 1..Len(calls) : calls[i].pc # "raised"
  /\ \A i \in ReturnedCalls :
       calls[i].returned =
         AloneResult[queries[i], i, table_metadata, include_temp_tables,
                     hash_seed]
  /\ Cardinality({i \in ReturnedCalls : calls[i].returned.query_type = "ERROR"})
       = Cardinality({i \in ReturnedCalls : QueryFails[queries[i]]})

\* a step leaves the calls that have returned as they are
SiblingsKept ==
  \A j \in 1..Len(calls) : calls[j].pc = "done" => calls'[j] = calls[j]

\* C15: when the calls of a batch run on one analyzer in any order and
\* interleaving, each returns what its query returns when analysed alone; a
\* failing query gives exactly one ERROR record and no step of one call
\* changes the result another call has returned.
C15_CallsIndependent ==
  /\ []EachAsAlone
  /\ [][SiblingsKept]_vars

\* C15 witness: a batch of two has returned, the first an ERROR record and
\* the second an analysis with tables
C15_Witness ==
  /\ Len(calls) = 2
  /\ ReturnedCalls = {1, 2}
  /\ calls[1].returned.query_type = "ERROR"
  /\ calls[2].returned.query_type = "SELECT"
  /\ calls[2].returned.tables # <<>>

\* token tok is a keyword of any kind (Keyword, Keyword.DML, Keyword.DDL,
\* Keyword.CTE)
IsKeywordToken(tok) == StartsWith(tok.ttype, "Keyword")

\* the number of SELECT keyword tokens of toks met at a parenthesis depth
\* greater than 0
NestedSelects(toks) ==
  Cardinality({n \in 1..Len(toks) :
                 /\ IsKeywordToken(toks[n])
                 /\ Upper(toks[n].value) = "SELECT"
                 /\ NestingAt(toks, n) > 0})

\* C16 as stated: the subquery count is the number of SELECT keyword tokens
\* met while the running parenthesis depth is greater than 0; it is never
\* negative.
C16_SubqueryCount ==
  pc = "score" =>
    /\ result.subqueries = NestedSelects(parsed)
    /\ result.subqueries >= 0

\* the state of the loop of _extract_tables before its first token
TablesLoopStart ==
  [in_from_clause |-> FALSE, in_join_clause |-> FALSE,
   next_is_table |-> FALSE, tables |-> {}]

\* the state of that loop after the first n tokens of toks
TablesStateAfter(toks, n) ==
  TablesScan([st |-> TablesLoopStart, toks |-> SubSeq(toks, 1, n)])

ClauseKeywords ==
  {"WHERE", "GROUP", "ORDER", "HAVING", "LIMIT", "UNION", "SELECT"}

\* C17 as stated: after each keyword token WHERE, GROUP, ORDER, HAVING,
\* LIMIT, UNION or SELECT the table loop has in_from_clause, in_join_clause
\* and next_is_table all cleared, so the select list of a subquery in a FROM
\* clause gives no table.
C17_ClauseKeywordClears ==
  pc = "score" =>
    /\ \A n \in 1..Len(parsed) :
         (IsKeywordToken(parsed[n])
            /\ Strip(Upper(parsed[n].value)) \in ClauseKeywords) =>
           LET st == TablesStateAfter(parsed, n)
           IN  ~st.in_from_clause /\ ~st.in_join_clause /\ ~st.next_is_table
    /\ query = "SELECT a FROM (SELECT b FROM t2) s" => ~InSeq("b", result.tables)

\* token tok arms the capture of a table name
ArmsCapture(tok) ==
  /\ tok.ttype = "Keyword"
  /\ \/ Upper(tok.value) = "FROM"
     \/ Contains(Upper(tok.value), "JOIN")

\* token tok is the keyword ON or AS
IsOnOrAs(tok) == tok.ttype = "Keyword" /\ Upper(tok.value) \in {"ON", "AS"}

\* C18: every FROM or JOIN keyword arms the capture of at most one name: a
\* token that adds a table is a name with an arming keyword before it and
\* neither a name, nor ON or AS, in between; after ON or AS the capture is
\* disarmed; so there are never more tables than FROM and JOIN keywords, and
\* "FROM t1, t2" gives t1 alone.
C18_OneNamePerArming ==
  pc = "score" =>
    LET after == [n \in 0..Len(parsed) |-> TablesStateAfter(parsed, n)]
        Grows(n) == after[n].tables # after[n - 1].tables
    IN  /\ \A n \in 1..Len(parsed) :
             Grows(n) =>
               /\ parsed[n].ttype = "Name"
               /\ ~after[n].next_is_table
               /\ \E a \in 1..(n - 1) :
                    /\ ArmsCapture(parsed[a])
                    /\ \A j \in (a + 1)..(n - 1) :
                         parsed[j].ttype # "Name" /\ ~IsOnOrAs(parsed[j])
        /\ \A n \in 1..Len(parsed) :
             IsOnOrAs(parsed[n]) => ~after[n].next_is_table
        /\ Len(result.tables)
             <= Cardinality({a \in 1..Len(parsed) : ArmsCapture(parsed[a])})
        /\ query = "SELECT a, b FROM t1, t2" => result.tables = <<"t1">>

\* C18 witness: the comma-separated list, of which the first table was taken
C18_Witness ==
  /\ pc = "score"
  /\ query = "SELECT a, b FROM t1, t2"
  /\ result.tables = <<"t1">>

ReservedWords == {"AS", "ON", "WHERE", "AND", "OR", "SELECT", "FROM", "JOIN"}

\* C19 as stated: no table of the result is empty, purely numeric or one of
\* AS, ON, WHERE, AND, OR, SELECT, FROM, JOIN.
C19_NoInvalidTable ==
  pc = "score" =>
    \A i \in 1..Len(result.tables) :
      /\ result.tables[i] # ""
      /\ ~IsDigit(result.tables[i])
      /\ Upper(result.tables[i]) \notin ReservedWords

\* C20 as stated: of a schema-qualified table reference only the part after
\* the last dot becomes a table: FROM sch.tbl, bracketed or not, gives tbl
\* and never sch.
C20_SchemaPrefixDropped ==
  (pc = "score"
     /\ query \in {"SELECT a FROM sch.tbl", "SELECT a FROM [sch.tbl]"}) =>
    /\ InSeq("tbl", result.tables)
    /\ ~InSeq("sch", result.tables)

-----------------------------------------------------------------------------
(* Column extraction *)

ColumnFilterWords == {"SELECT", "FROM", "WHERE", "JOIN", "ON", "AS"}

\* the result of a successful analysis is complete from the scoring step on
Extracted == pc \in {"score", "diagnose", "attach"} /\ result # NoResult

\* C21: the columns list never holds a key of the supplied metadata map, a
\* reserved keyword of the classifier's fixed set, one of SELECT, FROM,
\* WHERE, JOIN, ON, AS, or the empty string
C21_ColumnsExcludeTablesAndKeywords ==
  Extracted =>
    \A i \in 1..Len(result.columns) :
      LET col == result.columns[i] IN
      /\ col \notin DOMAIN table_metadata
      /\ Upper(col) \notin sql_keywords
      /\ Upper(col) \notin ColumnFilterWords
      /\ col # ""

-----------------------------------------------------------------------------
(* Join detection *)

\* the position of a join phrase in the declared list
DeclarationIndex(phrase) ==
  CHOOSE k \in 1..Len(join_keywords) : join_keywords[k] = phrase

\* the join phrases occurring in the uppercased text q
PhrasesIn(q) ==
  {join_keywords[k] : k \in {j \in 1..Len(join_keywords) :
                               Contains(Upper(q), join_keywords[j])}}

\* C22: has_joins holds exactly when join_types is non-empty; join_types
\* lists, in declaration order and each once, exactly the join phrases that
\* occur in the uppercased query, so it holds "JOIN" whenever has_joins is
\* true; EMPTY and ERROR records have has_joins false and no join types
C22_JoinTypesMatchHasJoins ==
  Returned =>
    LET jt == returned.join_types IN
    /\ returned.has_joins <=> (jt # <<>>)
    /\ returned.has_joins => InSeq("JOIN", jt)
    /\ Analysed =>
         /\ Range(jt) = PhrasesIn(query)
         /\ \A i, j \in 1..Len(jt) :
              i < j => DeclarationIndex(jt[i]) < DeclarationIndex(jt[j])
    /\ ~Analysed => (~returned.has_joins /\ jt = <<>>)

\* a query with overlapping join phrases has been analysed
C22_Witness ==
  /\ Analysed
  /\ returned.has_joins
  /\ returned.join_types = <<"JOIN", "INNER JOIN", "LEFT JOIN">>

-----------------------------------------------------------------------------
(* Temp tables of a CTE *)

\* a query whose only temp-table pattern match is one CTE introduction
CteQuery == "WITH c AS (SELECT a FROM t) SELECT a FROM c"

NoDuplicates(list) ==
  \A i, j \in 1..Len(list) : list[i] = list[j] => i = j

\* C23: a match of the pattern WITH <name> AS ( contributes the captured
\* name and nothing else, so the query above has temp_tables = [c]; the
\* list never holds a name twice
C23_CteNameOnly ==
  (Analysed /\ include_temp_tables) =>
    /\ NoDuplicates(returned.temp_tables)
    /\ query = CteQuery => returned.temp_tables = <<"c">>

-----------------------------------------------------------------------------
(* WHERE conditions *)

\* a keyword token that opens a GROUP, ORDER, HAVING or LIMIT clause
EndsWhereRegion(tok) ==
  /\ IsKeywordToken(tok)
  /\ Upper(tok.value) \in
       {"GROUP", "ORDER", "HAVING", "LIMIT", "GROUP BY", "ORDER BY"}

IsWhereToken(tok) == IsKeywordToken(tok) /\ Upper(tok.value) = "WHERE"

\* the region state [segments, inside, texts] after one more token
RegionStep(st, tok) ==
  IF IsWhereToken(tok) THEN [st EXCEPT !.inside = TRUE]
  ELSE IF EndsWhereRegion(tok)
  THEN [segments |-> IF st.inside /\ st.texts # <<>>
                     THEN Append(st.segments, JoinSpace(st.texts))
                     ELSE st.segments,
        inside |-> FALSE,
        texts |-> <<>>]
  ELSE IF st.inside /\ ~Blank(tok.value)
  THEN [st EXCEPT !.texts = Append(@, tok.value)]
  ELSE st

RECURSIVE RegionScan(_)
RegionScan(loop) ==
  IF loop.toks = <<>> THEN loop.st
  ELSE RegionScan([st   |-> RegionStep(loop.st, Head(loop.toks)),
                   toks |-> Tail(loop.toks)])

\* one segment per finished WHERE region of toks
WhereSegments(toks) ==
  LET end == RegionScan([st   |-> [segments |-> <<>>, inside |-> FALSE,
                                   texts |-> <<>>],
                         toks |-> toks])
  IN IF end.inside /\ end.texts # <<>>
     THEN Append(end.segments, JoinSpace(end.texts))
     ELSE end.segments

\* C24: conditions holds one segment per finished WHERE region, the
\* space-joined text of the region's non-blank tokens; a region ends at the
\* next GROUP, ORDER, HAVING or LIMIT clause keyword or at the end of the
\* tokens; tokens outside a region appear in no segment and a region without
\* a non-blank token gives no segment
C24_SegmentPerWhereRegion ==
  Analysed => returned.conditions = WhereSegments(Tokenize(query))

ConditionsLoopStart ==
  [conditions |-> <<>>, in_where |-> FALSE, current_condition |-> <<>>]

\* the state of the loop of _extract_conditions after the first n tokens
ConditionsStateAfter(toks, n) ==
  ConditionsScan([st |-> ConditionsLoopStart, toks |-> SubSeq(toks, 1, n)])

NestedWhereQuery ==
  "SELECT a FROM t WHERE x IN (SELECT b FROM u WHERE y = 1)"

\* the tokens the loop treats as the end of a WHERE region
BoundaryTokens(toks) ==
  {n \in 1..Len(toks) :
     /\ toks[n].ttype = "Keyword"
     /\ Upper(toks[n].value) \in {"GROUP", "ORDER", "HAVING", "LIMIT"}}

WhereTokens(toks) == {n \in 1..Len(toks) : IsWhereToken(toks[n])}

\* C25: a WHERE keyword met inside a WHERE region starts no new segment:
\* the segments and the accumulated texts are as before it, and its own text
\* is not accumulated; so there are at most as many conditions as WHERE
\* tokens and at most one more than there are boundary tokens
C25_SecondWhereContinues ==
  pc = "score" =>
    LET after == [n \in 0..Len(parsed) |-> ConditionsStateAfter(parsed, n)]
    IN  /\ \A n \in 1..Len(parsed) :
             (IsWhereToken(parsed[n]) /\ after[n - 1].in_where) =>
               /\ after[n].in_where
               /\ after[n].conditions = after[n - 1].conditions
               /\ after[n].current_condition = after[n - 1].current_condition
        /\ Len(result.conditions) <= Cardinality(WhereTokens(parsed))
        /\ Len(result.conditions) <= 1 + Cardinality(BoundaryTokens(parsed))
        /\ query = NestedWhereQuery =>
             result.conditions = <<"x IN ( SELECT b FROM u y = 1 )">>

\* the query with a WHERE inside a WHERE region has been scanned
C25_Witness ==
  /\ pc = "score"
  /\ query = NestedWhereQuery
  /\ Len(result.conditions) = 1
  /\ Cardinality(WhereTokens(parsed)) = 2

-----------------------------------------------------------------------------
(* Order of scoring and diagnostics *)

\* the score of the features of record r, whatever r.change_areas holds
FeatureScore(r) ==
  _calculate_complexity([r EXCEPT !.complexity_score = 0,
                                  !.change_areas = <<MsgHighComplexity>>])

\* C26: the score is computed from the completed feature record before the
\* diagnostics run, while change_areas is empty and independently of it; the
\* high-complexity rule reads the final score stored in the record, never the
\* 0 the record is initialised with
C26_ScoreBeforeDiagnostics ==
  /\ pc = "score" =>
       result.complexity_score = 0 /\ result.change_areas = <<>>
  /\ pc = "diagnose" =>
       /\ result.change_areas = <<>>
       /\ result.complexity_score = FeatureScore(result)
  /\ pc = "attach" =>
       /\ result.complexity_score = FeatureScore(result)
       /\ InSeq(MsgHighComplexity, result.change_areas)
            <=> result.complexity_score > 20
  /\ Analysed =>
       /\ returned.complexity_score = FeatureScore(returned)
       /\ InSeq(MsgHighComplexity, returned.change_areas)
            <=> returned.complexity_score > 20

\* a query whose final score is above 20 has been diagnosed as complex
C26_Witness ==
  /\ Analysed
  /\ returned.complexity_score > 20
  /\ InSeq(MsgHighComplexity, returned.change_areas)

-----------------------------------------------------------------------------
(* Optional sub-records *)

Carries(r, key) == key \in DOMAIN r

\* C27: a returned record carries column_usage exactly when the analysis
\* succeeded and column_usage_tracking is set, and join_details exactly when
\* the analysis succeeded, detailed_join_analysis is set and has_joins is
\* true, with join_count the length of join_types; EMPTY and ERROR records
\* carry neither
C27_SubRecordsFollowFlags ==
  Returned =>
    /\ Carries(returned, "column_usage")
         <=> (Analysed /\ column_usage_tracking)
    /\ Carries(returned, "join_details")
         <=> (Analysed /\ detailed_join_analysis /\ returned.has_joins)
    /\ Carries(returned, "join_details") =>
         returned.join_details.join_count = Len(returned.join_types)
    /\ ~Analysed => DOMAIN returned = ResultKeys

\* a join query analysed with both flags set carries both sub-records
C27_Witness ==
  /\ Analysed
  /\ Carries(returned, "column_usage")
  /\ Carries(returned, "join_details")
  /\ returned.join_details.join_count = 3

-----------------------------------------------------------------------------
(* Operations *)

OperationWords ==
  {"INSERT", "UPDATE", "DELETE", "SELECT", "CREATE", "DROP", "ALTER"}

\* a keyword token of toks has the text word, in any letter case
HasKeywordToken(toks, word) ==
  \E n \in 1..Len(toks) :
    IsKeywordToken(toks[n]) /\ Upper(toks[n].value) = word

\* C28: operations of an analysed query holds a word of INSERT, UPDATE,
\* DELETE, SELECT, CREATE, DROP, ALTER exactly when a keyword token with that
\* text occurs among the query's tokens, each word once; a query that starts
\* with SELECT has SELECT among its operations
C28_OperationsListKeywords ==
  Analysed =>
    /\ NoDuplicates(returned.operations)
    /\ \A word \in OperationWords :
         InSeq(word, returned.operations)
           <=> HasKeywordToken(Tokenize(query), word)

-----------------------------------------------------------------------------
(* Columns with and without metadata *)

\* the names of the Name tokens of toks, quotes and brackets removed
NamesOf(toks) ==
  {StripChars(toks[n].value, ColumnStripChars) :
     n \in {m \in 1..Len(toks) : toks[m].ttype = "Name"}}

\* an identifier of two or more characters that is no reserved keyword
OrdinaryIdentifier(name) == Len(name) >= 2 /\ Upper(name) \notin sql_keywords

\* C29: without metadata a name is reported as a column only if it has
\* fewer than 2 characters, is a reserved keyword other than SELECT, FROM,
\* WHERE, JOIN, ON, AS, or holds more than one dot, so an ordinary identifier
\* of two or more characters is never a column; with metadata every such
\* identifier that is not a metadata table key is reported
C29_ColumnsDependOnMetadata ==
  Extracted =>
    /\ DOMAIN table_metadata = {} =>
         \A name \in Range(result.columns) :
           \/ Len(name) < 2
           \/ Upper(name) \in sql_keywords \ ColumnFilterWords
           \/ CountChar(name, ".") > 1
    /\ DOMAIN table_metadata # {} =>
         \A name \in NamesOf(parsed) :
           (OrdinaryIdentifier(name) /\ name \notin DOMAIN table_metadata)
             => InSeq(name, result.columns)

\* without metadata the name with two dots is the only column reported
C29_Witness ==
  /\ Extracted
  /\ DOMAIN table_metadata = {}
  /\ query = "SELECT [a.b.c] FROM tt"
  /\ result.columns = <<"a.b.c">>

-----------------------------------------------------------------------------
(* Column usage *)

\* the (table, column) pairs of which the column is in columns and names a
\* field of the table in the metadata
MatchedPairs(columns, metadata) ==
  {pair \in (DOMAIN metadata) \X Range(columns) :
     \E i \in 1..Len(metadata[pair[1]]) :
       metadata[pair[1]][i].name = pair[2]}

\* C30: metadata_matched of the column_usage sub-record is the number of
\* (table, column) pairs whose column is in the record's columns and is the
\* name of a field of that table in the metadata; it is 0 without metadata
C30_MetadataMatchedCountsFields ==
  (Analysed /\ Carries(returned, "column_usage")) =>
    returned.column_usage.metadata_matched
      = Cardinality(MatchedPairs(returned.columns, table_metadata))

====
